---- MODULE Spec2Model ----
(***************************************************************************)
(* Model of find-duplicate-images.py: the coarse-to-fine duplicate search  *)
(* (thumbnail checksum -> clusters -> pairs -> SSIM), the on-disk JSON     *)
(* cache with its reload/merge/rewrite saves, and several invocations of   *)
(* main() sharing that cache file.                                         *)
(*                                                                         *)
(* Python strings are tuples of character codes, so that str comparison,   *)
(* str()/int() and zlib.crc32 are computed as Python computes them.        *)
(* 32-bit values are pairs <<hi, lo>> of 16-bit limbs.                     *)
(***************************************************************************)
EXTENDS Integers, Sequences, FiniteSets, TLC

\* ------------------------------------------------------------------------
\* Strings

\* Python's str '<' / '>' : lexicographic on code points, a proper prefix
\* is smaller.
RECURSIVE StrLess(_, _)
StrLess(s, t) ==
    IF t = <<>> THEN FALSE
    ELSE IF s = <<>> THEN TRUE
    ELSE IF s[1] # t[1] THEN s[1] < t[1]
    ELSE StrLess(Tail(s), Tail(t))

StrGreater(s, t) == StrLess(t, s)

\* str(n) for a small non-negative int: its decimal digits.
RECURSIVE StrOfNat(_)
StrOfNat(n) ==
    IF n < 10 THEN <<48 + n>> ELSE Append(StrOfNat(n \div 10), 48 + (n % 10))

\* ------------------------------------------------------------------------
\* 32-bit unsigned values as <<hi, lo>>

\* Bitwise xor, four bits at a time.
Xor4(a, b) ==
    ((a + b) % 2)
    + 2 * (((a \div 2) + (b \div 2)) % 2)
    + 4 * (((a \div 4) + (b \div 4)) % 2)
    + 8 * (((a \div 8) + (b \div 8)) % 2)

Xor16(a, b) ==
    Xor4(a % 16, b % 16)
    + 16 * Xor4((a \div 16) % 16, (b \div 16) % 16)
    + 256 * Xor4((a \div 256) % 16, (b \div 256) % 16)
    + 4096 * Xor4(a \div 4096, b \div 4096)

Xor32(x, y) == <<Xor16(x[1], y[1]), Xor16(x[2], y[2])>>

Shr1(x) == <<x[1] \div 2, (x[2] \div 2) + (x[1] % 2) * 32768>>

U32Less(x, y) == x[1] < y[1] \/ (x[1] = y[1] /\ x[2] < y[2])

\* min() and max() of Python ints
U32Min(x, y) == IF U32Less(y, x) THEN y ELSE x
U32Max(x, y) == IF U32Less(x, y) THEN y ELSE x

\* str(v) of a 32-bit value: long division by ten on the two limbs.
U32Div10(x) ==
    LET r == (x[1] % 10) * 65536 + x[2]
    IN  <<x[1] \div 10, r \div 10>>

U32Mod10(x) == ((x[1] % 10) * 65536 + x[2]) % 10

RECURSIVE StrOfU32(_)
StrOfU32(x) ==
    IF x[1] = 0 /\ x[2] < 10 THEN <<48 + x[2]>>
    ELSE Append(StrOfU32(U32Div10(x)), 48 + U32Mod10(x))

\* int(s) of a decimal string, as a 32-bit value.
RECURSIVE IntOfStrAcc(_, _)
IntOfStrAcc(s, acc) ==
    IF s = <<>> THEN acc
    ELSE LET lo == acc[2] * 10 + (s[1] - 48)
         IN  IntOfStrAcc(Tail(s), <<acc[1] * 10 + (lo \div 65536), lo % 65536>>)

IntOfStr(s) == IntOfStrAcc(s, <<0, 0>>)

\* zlib.crc32: reflected CRC-32, polynomial 0xEDB88320, initial value and
\* final xor 0xFFFFFFFF.
RECURSIVE Crc32Bits(_, _)
Crc32Bits(crc, n) ==
    IF n = 0 THEN crc
    ELSE IF crc[2] % 2 = 1
         THEN Crc32Bits(Xor32(Shr1(crc), <<60856, 33568>>), n - 1)
         ELSE Crc32Bits(Shr1(crc), n - 1)

\* (the test on crc has TLC evaluate the running value at every byte
\* instead of nesting the evaluations of a whole string)
RECURSIVE Crc32Acc(_, _)
Crc32Acc(s, crc) ==
    IF s = <<>> \/ crc = <<>> THEN crc
    ELSE Crc32Acc(Tail(s), Crc32Bits(Xor32(crc, <<0, s[1]>>), 8))

crc32(s) == Xor32(Crc32Acc(s, <<65535, 65535>>), <<65535, 65535>>)

\* ------------------------------------------------------------------------
\* Paths and the file system the invocations run on

Slash == 47
Dot == 46

RECURSIVE SplitAcc(_, _, _)
SplitAcc(s, cur, acc) ==
    IF s = <<>> THEN Append(acc, cur)
    ELSE IF s[1] = Slash THEN SplitAcc(Tail(s), <<>>, Append(acc, cur))
    ELSE SplitAcc(Tail(s), Append(cur, s[1]), acc)

\* path.split('/')
Split(s) == SplitAcc(s, <<>>, <<>>)

RECURSIVE JoinComps(_)
JoinComps(comps) ==
    IF comps = <<>> THEN <<>>
    ELSE IF Len(comps) = 1 THEN comps[1]
    ELSE comps[1] \o <<Slash>> \o JoinComps(Tail(comps))

StartsWith(s, pre) == Len(s) >= Len(pre) /\ SubSeq(s, 1, Len(pre)) = pre

\* posixpath.normpath
RECURSIVE NormComps(_, _, _)
NormComps(comps, new, initial) ==
    IF comps = <<>> THEN new
    ELSE LET comp == comps[1]
             dotdot == <<Dot, Dot>>
         IN  IF comp = <<>> \/ comp = <<Dot>>
             THEN NormComps(Tail(comps), new, initial)
             ELSE IF comp # dotdot
                     \/ (initial = 0 /\ new = <<>>)
                     \/ (new # <<>> /\ new[Len(new)] = dotdot)
             THEN NormComps(Tail(comps), Append(new, comp), initial)
             ELSE IF new # <<>>
             THEN NormComps(Tail(comps), SubSeq(new, 1, Len(new) - 1), initial)
             ELSE NormComps(Tail(comps), new, initial)

normpath(path) ==
    IF path = <<>> THEN <<Dot>>
    ELSE LET initial == IF ~StartsWith(path, <<Slash>>) THEN 0
                        ELSE IF StartsWith(path, <<Slash, Slash>>)
                                /\ ~StartsWith(path, <<Slash, Slash, Slash>>)
                        THEN 2 ELSE 1
             body == JoinComps(NormComps(Split(path), <<>>, initial))
             res == [k \in 1..initial |-> Slash] \o body
         IN  IF res = <<>> THEN <<Dot>> ELSE res

\* os.getcwd(): "/w"
Cwd == <<47, 119>>

\* os.path.abspath
abspath(path) ==
    normpath(IF StartsWith(path, <<Slash>>) THEN path ELSE Cwd \o <<Slash>> \o path)

\* The directory tree: each directory with the names of its entries.
\*   /w      a.jpg  a003d.jpg  0RQ_x.jpg  d/
\*   /w/d    c.jpeg  t.txt  e/
\*   /w/d/e  n.JPG
FsDirs ==
    (<<47, 119>> :> { <<97, 46, 106, 112, 103>>,
                      <<97, 48, 48, 51, 100, 46, 106, 112, 103>>,
                      <<48, 82, 81, 95, 120, 46, 106, 112, 103>>,
                      <<100>> })
    @@ (<<47, 119, 47, 100>> :> { <<99, 46, 106, 112, 101, 103>>,
                                  <<116, 46, 116, 120, 116>>,
                                  <<101>> })
    @@ (<<47, 119, 47, 100, 47, 101>> :> { <<110, 46, 74, 80, 71>> })

\* The regular files, by absolute path.
FsFiles ==
    { d \o <<Slash>> \o n : d \in DOMAIN FsDirs, n \in UNION {FsDirs[e] : e \in DOMAIN FsDirs} }
    \cap { p \in UNION { {d \o <<Slash>> \o n : n \in FsDirs[d]} : d \in DOMAIN FsDirs } :
             p \notin DOMAIN FsDirs }

\* os.path.isfile
isfile(path) == abspath(path) \in FsFiles

\* glob.glob(path + '/*'): the entries of the directory `path` whose name
\* does not start with a dot, each as path + '/' + name; nothing when
\* `path` is not a directory.
Entries(path, dir) ==
    IF dir \in DOMAIN FsDirs
    THEN { path \o <<Slash>> \o n : n \in { m \in FsDirs[dir] : m[1] # Dot } }
    ELSE {}

glob(path) == Entries(path, abspath(path))

\* Index of the last occurrence of c in s, 0 when there is none (str.rfind).
RECURSIVE rfind(_, _, _)
rfind(s, c, i) ==
    IF i = 0 THEN 0 ELSE IF s[i] = c THEN i ELSE rfind(s, c, i - 1)

\* os.path.splitext(path)[1]
splitext(path) ==
    LET sepIndex == rfind(path, Slash, Len(path))
        dotIndex == rfind(path, Dot, Len(path))
    IN  IF dotIndex > sepIndex
           /\ \E k \in (sepIndex + 1)..(dotIndex - 1) : path[k] # Dot
        THEN SubSeq(path, dotIndex, Len(path))
        ELSE <<>>

\* str.lower() on ASCII
lower(s) == [k \in 1..Len(s) |-> IF s[k] >= 65 /\ s[k] <= 90 THEN s[k] + 32 ELSE s[k]]

IsJpegAlways(path) == TRUE

\* ext.lower() in ('.jpg', '.jpeg')
IsJpeg(path) ==
    lower(splitext(path)) \in { <<46, 106, 112, 103>>, <<46, 106, 112, 101, 103>> }

\* The loop of main() over full_paths, which grows while it is iterated:
\* every path appended by glob is visited in turn.
RECURSIVE ScanPaths(_, _)
ScanPaths(todo, files) ==
    IF todo = {} THEN files
    ELSE LET path == CHOOSE q \in todo : TRUE
         IN  IF isfile(path)
             THEN ScanPaths(todo \ {path},
                            IF IsJpeg(path) THEN files \cup {path} ELSE files)
             ELSE ScanPaths((todo \ {path}) \cup glob(path), files)

\* The values a `path` argument is drawn from:
\*   a.jpg   ./a.jpg   /w/a003d.jpg   /w/0RQ_x.jpg   d
ArgUniverse ==
    { <<97, 46, 106, 112, 103>>,
      <<46, 47, 97, 46, 106, 112, 103>>,
      <<47, 119, 47, 97, 48, 48, 51, 100, 46, 106, 112, 103>>,
      <<47, 119, 47, 48, 82, 81, 95, 120, 46, 106, 112, 103>>,
      <<100>> }

\* A `path` argument that names a regular file that is not a JPEG: d/t.txt
OtherArgs == { <<100, 47, 116, 46, 116, 120, 116>> }

\* The function x |-> F(x) on S, with its values computed once.
RECURSIVE FromPairs(_)
FromPairs(P) ==
    IF P = {} THEN <<>>
    ELSE LET e == CHOOSE y \in P : TRUE
         IN  (e[1] :> e[2]) @@ FromPairs(P \ {e})

Tabulate(S, F(_)) == FromPairs({ <<x, F(x)>> : x \in S })

\* Every path string that the scan of some argument list can put in `files`.
ScanTable == Tabulate(SUBSET (ArgUniverse \cup OtherArgs), LAMBDA a : ScanPaths(a, {}))

AllPaths == ScanTable[ArgUniverse]

\* The file each of these paths names.
FileOf == Tabulate(AllPaths, abspath)

\* ------------------------------------------------------------------------
\* Bounds and program constants

\* Number of files the invocations find, all together.
MaxFiles == 2

\* Length of the result lists the clustering is applied to on its own.
MaxResults == 4

\* The invocations of main() that share the cache file: one and another one.
Invocations == {1, 2}

\* zlib.crc32 of a thumbnail: the values the thumbnails take.
Fingerprints == {0, 1}

\* SSIM values in hundredths: 0.0, 0.79, 0.8.
Scores == {0, 79, 80}

SSIM_THRESHOLD == 80

\* Pixel sizes and EXIF orientations of the images.
Sizes == {999, 1000}
Orientations == {1, 6}

\* ------------------------------------------------------------------------
\* Python values

\* dict.get: None is <<>>, a value v is <<v>>.
None == <<>>

Get(map, key) == IF key \in DOMAIN map THEN <<map[key]>> ELSE None

\* old | new
DictUnion(old, new) == new @@ old

\* The greatest element of a set of indices.
Last(S) == CHOOSE k \in S : \A j \in S : j <= k

\* The sequences that enumerate the set S (iteration orders of a Python set).
Orders(S) ==
    { s \in [1..Cardinality(S) -> S] : \A j, k \in 1..Cardinality(S) : s[j] = s[k] => j = k }

\* ------------------------------------------------------------------------
\* class Cache: keys

path_hash(file) == StrOfU32(crc32(abspath(file)))

PathHashes == Tabulate(AllPaths, path_hash)

\* f'{h1} {h2}'
Spaced(h1, h2) == StrOfU32(h1) \o <<32>> \o StrOfU32(h2)

\* lines 148-149, h1 and h2 being the two hashes as ints
MinMaxKey(h1, h2) == Spaced(U32Min(h1, h2), U32Max(h1, h2))

paths_hash_as_given(file1, file2) ==
    Spaced(IntOfStr(path_hash(file1)), IntOfStr(path_hash(file2)))

paths_hash(file1, file2) ==
    MinMaxKey(IntOfStr(path_hash(file1)), IntOfStr(path_hash(file2)))

PathPairs == AllPaths \X AllPaths

PairHashes == Tabulate(PathPairs, LAMBDA pq : paths_hash(pq[1], pq[2]))

get_checksum(c, file) == Get(c.checksums, PathHashes[file])

get_similarity(c, file1, file2) == Get(c.similarities, PairHashes[<<file1, file2>>])

\* The cache file: missing, not parseable as JSON, or a document with the
\* two mappings.
NoFile == [kind |-> "missing", checksums |-> <<>>, similarities |-> <<>>]
BadFile == [kind |-> "malformed", checksums |-> <<>>, similarities |-> <<>>]

DocumentOfChecksums(c) == [kind |-> "ok", checksums |-> c.checksums, similarities |-> <<>>]

\* _save_to_disk: the document json.dump writes
Document(c) == [kind |-> "ok", checksums |-> c.checksums, similarities |-> c.similarities]

load_nothing(d) == [checksums |-> <<>>, similarities |-> <<>>]

\* _load_from_disk, when json.loads succeeds or the file is missing.
load_from_disk(d) == [checksums |-> d.checksums, similarities |-> d.similarities]

LoadNeverFails(d) == FALSE

\* json.loads raises on a malformed file.
LoadFails(d) == d.kind = "malformed"

\* {keys[k]: values[k] for k in ...}: a later element replaces an earlier
\* one with the same key.
DictOf(keys, values) ==
    [h \in { keys[k] : k \in DOMAIN keys } |->
        values[Last({ k \in DOMAIN keys : keys[k] = h })]]

\* new = {self.path_hash(file): checksum for file, checksum in results}
NewChecksums(results) ==
    DictOf([k \in DOMAIN results |-> PathHashes[results[k][1]]],
           [k \in DOMAIN results |-> results[k][2]])

\* new = {self.paths_hash(f1, f2): ssim for f1, f2, ssim in results}
NewSimilarities(results) ==
    DictOf([k \in DOMAIN results |-> PairHashes[<<results[k][1], results[k][2]>>]],
           [k \in DOMAIN results |-> results[k][3]])

\* ------------------------------------------------------------------------
\* State

VARIABLES
    disk,            \* the cache file
    image,           \* per path of an image: width, height, EXIF orientation
    fpOf,            \* thumbnail checksums the image tool has produced so far
    ssimOf,          \* scores the metric tool has reported so far, per input
    args,            \* per invocation: the `path` arguments
    manual,          \* per invocation: --manual-validation
    pc,              \* per invocation: position in main()
    files,           \* per invocation: `files` in its iteration order
    cache,           \* per invocation: Cache.checksums and Cache.similarities
    todo,            \* per invocation: `todo` of the running stage
    cached_outputs,  \* per invocation: `cached_outputs` of the running stage
    inflight,        \* per invocation: pool tasks not yet finished
    results,         \* per invocation: results of the finished pool tasks
    outputs,         \* per invocation: `outputs`
    duplicates,      \* per invocation: `duplicates`
    pairs,           \* per invocation: `pairs`
    listing,         \* per invocation: the duplicate listing printed so far
    next,            \* per invocation: index of the report loop in `outputs`
    reloaded,        \* per invocation: the file as its running save read it
    saved,           \* per invocation: the batches its saves have written
    stale,           \* per invocation: the file was rewritten since its reload
    raced,           \* some save rewrote the file from a stale reload
    barrier,         \* per invocation: progress of the stages as the pool saw it
    overlapped,      \* an invocation started while another one was running
    ssimLog,         \* compute_SSIM calls made directly: input pair -> result
    asked            \* per invocation: the pairs shown to the user, with the answers

vars == << disk, image, fpOf, ssimOf, args, manual, pc, files, cache, todo,
           cached_outputs, inflight, results, outputs, duplicates, pairs,
           listing, next, reloaded, saved, stale, raced, barrier, overlapped,
           ssimLog, asked >>

\* The images of the directory tree, by the paths that name them: all
\* 1000x999 upright, except /w/a.jpg, which is 999x1000.
FsImages ==
    [p \in AllPaths |->
        IF FileOf[p] = <<47, 119, 47, 97, 46, 106, 112, 103>>
        THEN [w |-> 999, h |-> 1000, orientation |-> 1]
        ELSE [w |-> 1000, h |-> 999, orientation |-> 1]]

\* The arguments of the invocations; the invocations are numbered by
\* decreasing number of arguments.
ArgLists ==
    { a \in [Invocations -> SUBSET ArgUniverse] :
        /\ Cardinality({ ip \in Invocations \X AllPaths :
                           ip[2] \in ScanTable[a[ip[1]]] }) <= MaxFiles
        /\ \A i, j \in Invocations : i < j => Cardinality(a[i]) >= Cardinality(a[j]) }

InitRun ==
    /\ fpOf = <<>>
    /\ ssimOf = <<>>
    /\ pc = [i \in Invocations |-> "start"]
    /\ files = [i \in Invocations |-> <<>>]
    /\ cache = [i \in Invocations |-> [checksums |-> <<>>, similarities |-> <<>>]]
    /\ todo = [i \in Invocations |-> <<>>]
    /\ cached_outputs = [i \in Invocations |-> <<>>]
    /\ inflight = [i \in Invocations |-> {}]
    /\ results = [i \in Invocations |-> <<>>]
    /\ outputs = [i \in Invocations |-> <<>>]
    /\ duplicates = [i \in Invocations |-> <<>>]
    /\ pairs = [i \in Invocations |-> <<>>]
    /\ listing = [i \in Invocations |-> <<>>]
    /\ next = [i \in Invocations |-> 1]
    /\ reloaded = [i \in Invocations |-> NoFile]
    /\ saved = [i \in Invocations |-> [checksums |-> <<>>, similarities |-> <<>>, count |-> 0]]
    /\ stale = [i \in Invocations |-> FALSE]
    /\ raced = FALSE
    /\ barrier = [i \in Invocations |->
                    [dispatched |-> 0, finished |-> 0, saved |-> FALSE,
                     paired |-> FALSE, dispatched2 |-> 0, failed |-> 0]]
    /\ overlapped = FALSE
    /\ ssimLog = <<>>
    /\ asked = [i \in Invocations |-> <<>>]

Init ==
    /\ disk \in {NoFile, BadFile}
    /\ image = FsImages
    /\ args \in ArgLists
    /\ manual = [i \in Invocations |-> FALSE]
    /\ InitRun

\* ------------------------------------------------------------------------
\* main(), lines 161-181: argument parsing and the scan of the paths

\* nargs='+': no path argument is a usage error.
ParseFails(i) == args[i] = {}

\* The invocation is between the construction of its Cache and its end.
Running(i) == pc[i] \notin {"start", "usage", "failed", "done"}

\* lines 170-179: `files`, a set, in the order the invocation iterates it
Scan(i) == Orders(ScanTable[args[i]])

\* main() from its start to `cache = Cache()`, line 183
Start(i) ==
    /\ pc[i] = "start"
    /\ IF ParseFails(i)
       THEN /\ pc' = [pc EXCEPT ![i] = "usage"]
            /\ UNCHANGED << files, cache, overlapped >>
       ELSE /\ \E order \in Scan(i) : files' = [files EXCEPT ![i] = order]
            /\ IF LoadFails(disk)
               THEN /\ pc' = [pc EXCEPT ![i] = "failed"]
                    /\ UNCHANGED cache
               ELSE /\ cache' = [cache EXCEPT ![i] = load_from_disk(disk)]
                    /\ pc' = [pc EXCEPT ![i] = "loaded"]
            /\ overlapped' = (overlapped \/ \E j \in Invocations \ {i} : Running(j))
    /\ UNCHANGED << disk, image, fpOf, ssimOf, args, manual, todo,
                    cached_outputs, inflight, results, outputs, duplicates,
                    pairs, listing, next, reloaded, saved, stale, raced,
                    barrier, ssimLog, asked >>

\* ------------------------------------------------------------------------
\* Stage one, lines 185-192

\* Subsequence of seq at the indices satisfying Keep.
Filter(seq, Keep(_)) ==
    LET idx == SelectSeq([k \in 1..Len(seq) |-> k], Keep)
    IN  [k \in 1..Len(idx) |-> seq[idx[k]]]

\* `outputs = cached_outputs + outputs`, lines 192 and 213
Merged(cached, new) == cached \o new

\* todo and cached_outputs of lines 186-187
Lookups1(cached) ==
    LET miss == Filter(cached, LAMBDA k : cached[k][2] = None)
        hit == Filter(cached, LAMBDA k : cached[k][2] # None)
    IN  [todo |-> [k \in 1..Len(miss) |-> miss[k][1]],
         cached_outputs |-> [k \in 1..Len(hit) |-> <<hit[k][1], hit[k][2][1]>>]]

\* lines 185-190, up to the submission of the tasks to the pool
Dispatch1(i) ==
    /\ pc[i] = "loaded"
    /\ \E look \in { Lookups1([k \in 1..Len(files[i]) |->
                                 <<files[i][k], get_checksum(cache[i], files[i][k])>>]) } :
          /\ todo' = [todo EXCEPT ![i] = look.todo]
          /\ cached_outputs' = [cached_outputs EXCEPT ![i] = look.cached_outputs]
          /\ inflight' = [inflight EXCEPT ![i] = 1..Len(look.todo)]
          /\ barrier' = [barrier EXCEPT ![i].dispatched = Len(look.todo)]
    /\ results' = [results EXCEPT ![i] = <<>>]
    /\ pc' = [pc EXCEPT ![i] = "stage1"]
    /\ UNCHANGED << disk, image, fpOf, ssimOf, args, manual, files, cache,
                    outputs, duplicates, pairs, listing, next, reloaded,
                    saved, stale, raced, overlapped, ssimLog, asked >>

\* checksum_of_thumbnail run by a pool worker: the image tool renders the
\* thumbnail, the same one each time it is given the same image.
checksum_of_thumbnail(i, k) ==
    /\ pc[i] = "stage1"
    /\ k \in inflight[i]
    /\ \E img \in { FileOf[todo[i][k]] } :
       \E c \in (IF img \in DOMAIN fpOf THEN {fpOf[img]} ELSE Fingerprints) :
          /\ fpOf' = (img :> c) @@ fpOf
          /\ results' = [results EXCEPT ![i] = (k :> <<todo[i][k], c>>) @@ @]
    /\ inflight' = [inflight EXCEPT ![i] = @ \ {k}]
    /\ barrier' = [barrier EXCEPT ![i].finished = @ + 1]
    /\ UNCHANGED << disk, image, ssimOf, args, manual, pc, files, cache, todo,
                    cached_outputs, outputs, duplicates, pairs, listing, next,
                    reloaded, saved, stale, raced, overlapped, ssimLog, asked >>

RaisedSwallowed(i) == pc

\* An exception that main() does not catch ends the invocation.
Raised(i) == [pc EXCEPT ![i] = "failed"]

\* A pool task raises (a tool exits non-zero, or the ffmpeg report does not
\* parse): map/starmap re-raises in main().
TaskFails(i) ==
    /\ pc[i] \in {"stage1", "stage2"}
    /\ inflight[i] # {}
    /\ pc' = Raised(i)
    /\ barrier' = [barrier EXCEPT ![i].failed = @ + 1]
    /\ UNCHANGED << disk, image, fpOf, ssimOf, args, manual, files, cache,
                    todo, cached_outputs, inflight, results, outputs,
                    duplicates, pairs, listing, next, reloaded, saved, stale,
                    raced, overlapped, ssimLog, asked >>

PoolReturnedEarly(i) == TRUE

\* map/starmap return once every task of the batch has finished.
PoolReturned(i) == inflight[i] = {}

\* The results of map/starmap, in the order of `todo`.
Collected(i) ==
    LET idx == SelectSeq([k \in 1..Len(todo[i]) |-> k], LAMBDA k : k \in DOMAIN results[i])
    IN  [k \in 1..Len(idx) |-> results[i][idx[k]]]

\* The pool returns `outputs`; save_checksums reloads the file (line 141).
SaveChecksumsReload(i) ==
    /\ pc[i] = "stage1"
    /\ PoolReturned(i)
    /\ outputs' = [outputs EXCEPT ![i] = Collected(i)]
    /\ IF LoadFails(disk)
       THEN /\ pc' = [pc EXCEPT ![i] = "failed"]
            /\ UNCHANGED << cache, reloaded, stale >>
       ELSE /\ cache' = [cache EXCEPT ![i] = load_from_disk(disk)]
            /\ reloaded' = [reloaded EXCEPT ![i] = disk]
            /\ stale' = [stale EXCEPT ![i] = FALSE]
            /\ pc' = [pc EXCEPT ![i] = "save1"]
    /\ UNCHANGED << disk, image, fpOf, ssimOf, args, manual, files, todo,
                    cached_outputs, inflight, results, duplicates, pairs,
                    listing, next, saved, raced, barrier, overlapped, ssimLog, asked >>

\* Every other invocation that is between the reload and the rewrite of a
\* save now holds a reload that is out of date.
Outdated(i) ==
    [j \in Invocations |-> IF j # i /\ pc[j] \in {"save1", "save2"} THEN TRUE ELSE stale[j]]

\* save_checksums, lines 142-144: merge and rewrite the file
SaveChecksumsWrite(i) ==
    /\ pc[i] = "save1"
    /\ \E new \in { NewChecksums(outputs[i]) } :
          /\ cache' = [cache EXCEPT ![i].checksums = DictUnion(@, new)]
          /\ saved' = [saved EXCEPT ![i].checksums = new, ![i].count = @ + 1]
    /\ disk' = Document(cache'[i])
    /\ raced' = (raced \/ stale[i])
    /\ stale' = Outdated(i)
    /\ barrier' = [barrier EXCEPT ![i].saved = TRUE]
    /\ pc' = [pc EXCEPT ![i] = "saved1"]
    /\ UNCHANGED << image, fpOf, ssimOf, args, manual, files, todo,
                    cached_outputs, inflight, results, outputs, duplicates,
                    pairs, listing, next, reloaded, overlapped, ssimLog, asked >>

\* ------------------------------------------------------------------------
\* Clusters, pairs and the dispatch of stage two, lines 192-211

IsRedundantFromOne(n) == n >= 1

\* `if n > 1` of line 195
IsRedundant(n) == n > 1

\* redundant: the checksums counted more than once, in the order of their
\* first occurrence (collections.Counter keeps insertion order).
Redundant(checksums) ==
    Filter(checksums,
           LAMBDA k : /\ \A j \in 1..(k - 1) : checksums[j] # checksums[k]
                      /\ IsRedundant(Cardinality({j \in DOMAIN checksums :
                                                    checksums[j] = checksums[k]})))

\* duplicates = [[i[0] for i in outputs if i[1] == s] for s in redundant]
Duplicates(outs) ==
    LET redundant == Redundant([k \in 1..Len(outs) |-> outs[k][2]])
    IN  [c \in 1..Len(redundant) |->
            LET same == Filter(outs, LAMBDA k : outs[k][2] = redundant[c])
            IN  [k \in 1..Len(same) |-> same[k][1]]]

InnerStartAtSelf(i) == i

\* First value of j in `for j in range(i + 1, len(matches))`
InnerStart(i) == i + 1

\* The two nested loops of lines 202-204 over one cluster.
RECURSIVE PairsFrom(_, _, _)
PairsFrom(matches, i, j) ==
    IF i > Len(matches) THEN <<>>
    ELSE IF j > Len(matches) THEN PairsFrom(matches, i + 1, InnerStart(i + 1))
    ELSE << <<matches[i], matches[j]>> >> \o PairsFrom(matches, i, j + 1)

\* The loop of line 201 over the clusters.
RECURSIVE PairsOf(_)
PairsOf(dups) ==
    IF dups = <<>> THEN <<>>
    ELSE PairsFrom(dups[1], 1, InnerStart(1)) \o PairsOf(Tail(dups))

Lookups2WithoutHits(cached) ==
    LET miss == Filter(cached, LAMBDA k : cached[k][3] = None)
    IN  [todo |-> [k \in 1..Len(miss) |-> <<miss[k][1], miss[k][2]>>],
         cached_outputs |-> <<>>]

\* todo and cached_outputs of lines 207-208
Lookups2(cached) ==
    LET miss == Filter(cached, LAMBDA k : cached[k][3] = None)
        hit == Filter(cached, LAMBDA k : cached[k][3] # None)
    IN  [todo |-> [k \in 1..Len(miss) |-> <<miss[k][1], miss[k][2]>>],
         cached_outputs |-> [k \in 1..Len(hit) |-> <<hit[k][1], hit[k][2], hit[k][3][1]>>]]

\* lines 192-211: the clusters, the pairs, the lookups of the pairs in the
\* cache, up to the submission of the tasks to the pool
Bucket(i) ==
    /\ pc[i] = "saved1"
    /\ outputs' = [outputs EXCEPT ![i] = Merged(cached_outputs[i], @)]
    /\ duplicates' = [duplicates EXCEPT ![i] = Duplicates(outputs'[i])]
    /\ pairs' = [pairs EXCEPT ![i] = PairsOf(duplicates'[i])]
    /\ \E look \in { Lookups2([k \in 1..Len(pairs'[i]) |->
                                 <<pairs'[i][k][1], pairs'[i][k][2],
                                   get_similarity(cache[i], pairs'[i][k][1], pairs'[i][k][2])>>]) } :
          /\ todo' = [todo EXCEPT ![i] = look.todo]
          /\ cached_outputs' = [cached_outputs EXCEPT ![i] = look.cached_outputs]
          /\ inflight' = [inflight EXCEPT ![i] = 1..Len(look.todo)]
          /\ barrier' = [barrier EXCEPT ![i].paired = TRUE,
                                        ![i].dispatched2 = Len(look.todo)]
    /\ results' = [results EXCEPT ![i] = <<>>]
    /\ pc' = [pc EXCEPT ![i] = "stage2"]
    /\ UNCHANGED << disk, image, fpOf, ssimOf, args, manual, files, cache,
                    listing, next, reloaded, saved, stale, raced, overlapped,
                    ssimLog, asked >>

\* ------------------------------------------------------------------------
\* Stage two, lines 211-213

\* identify -format '%w %h', split on the space: two strings
image_dimensions(file) == <<StrOfNat(image[file].w), StrOfNat(image[file].h)>>

image_is_rotated(file) == image[file].orientation \in {6, 8}

\* lines 63-64: (h, w) if the image is rotated else (w, h)
Oriented(dims, rotated) == IF rotated THEN <<dims[2], dims[1]>> ELSE dims

WiderNever(w1, w2) == FALSE

\* `w1 > w2` of line 66, on the strings of image_dimensions
Wider(w1, w2) == StrGreater(w1, w2)

\* lines 70-77: what is compared, and the geometry file2 is resized to
\* (<<>> when it is compared as it is).
Compared(file1, file2, d1, d2) ==
    [file1 |-> file1, file2 |-> file2,
     resize |-> IF d1 = d2 THEN <<>> ELSE d1[1] \o <<120>> \o d1[2] \o <<33>>]

\* lines 66-68: the exchange of the two files and of their dimensions
Canonical(file1, file2, d1, d2) ==
    IF Wider(d1[1], d2[1]) THEN Compared(file2, file1, d2, d1)
    ELSE Compared(file1, file2, d1, d2)

\* compute_SSIM, lines 61-77: the two files in the order they are compared,
\* and the geometry the second one is resized to.
SSIMInputs(file1, file2) ==
    Canonical(file1, file2,
              Oriented(image_dimensions(file1), image_is_rotated(file1)),
              Oriented(image_dimensions(file2), image_is_rotated(file2)))

\* What ffmpeg is given: the first image, the second image, and the
\* geometry the second one was resized to.
MetricInput(in) == <<FileOf[in.file1], FileOf[in.file2], in.resize>>

\* compute_SSIM run by a pool worker: the metric tool reports the same score
\* each time it is given the same input.
compute_SSIM(i, k) ==
    /\ pc[i] = "stage2"
    /\ k \in inflight[i]
    /\ \E in \in { SSIMInputs(todo[i][k][1], todo[i][k][2]) } :
       \E key \in { MetricInput(in) } :
       \E ssim \in (IF key \in DOMAIN ssimOf THEN {ssimOf[key]} ELSE Scores) :
          /\ ssimOf' = (key :> ssim) @@ ssimOf
          /\ results' = [results EXCEPT ![i] = (k :> <<in.file1, in.file2, ssim>>) @@ @]
    /\ inflight' = [inflight EXCEPT ![i] = @ \ {k}]
    /\ UNCHANGED << disk, image, fpOf, args, manual, pc, files, cache, todo,
                    cached_outputs, outputs, duplicates, pairs, listing, next,
                    reloaded, saved, stale, raced, barrier, overlapped, ssimLog, asked >>

\* The pool returns `outputs`; save_similarities reloads the file (line 155).
SaveSimilaritiesReload(i) ==
    /\ pc[i] = "stage2"
    /\ PoolReturned(i)
    /\ outputs' = [outputs EXCEPT ![i] = Collected(i)]
    /\ IF LoadFails(disk)
       THEN /\ pc' = [pc EXCEPT ![i] = "failed"]
            /\ UNCHANGED << cache, reloaded, stale >>
       ELSE /\ cache' = [cache EXCEPT ![i] = load_from_disk(disk)]
            /\ reloaded' = [reloaded EXCEPT ![i] = disk]
            /\ stale' = [stale EXCEPT ![i] = FALSE]
            /\ pc' = [pc EXCEPT ![i] = "save2"]
    /\ UNCHANGED << disk, image, fpOf, ssimOf, args, manual, files, todo,
                    cached_outputs, inflight, results, duplicates, pairs,
                    listing, next, saved, raced, barrier, overlapped, ssimLog, asked >>

\* save_similarities, lines 156-158, then line 213
SaveSimilaritiesWrite(i) ==
    /\ pc[i] = "save2"
    /\ \E new \in { NewSimilarities(outputs[i]) } :
          /\ cache' = [cache EXCEPT ![i].similarities = DictUnion(@, new)]
          /\ saved' = [saved EXCEPT ![i].similarities = new, ![i].count = @ + 1]
    /\ disk' = Document(cache'[i])
    /\ raced' = (raced \/ stale[i])
    /\ stale' = Outdated(i)
    /\ outputs' = [outputs EXCEPT ![i] = Merged(cached_outputs[i], @)]
    /\ next' = [next EXCEPT ![i] = 1]
    /\ pc' = [pc EXCEPT ![i] = "report"]
    /\ UNCHANGED << image, fpOf, ssimOf, args, manual, files, todo,
                    cached_outputs, inflight, results, duplicates, pairs,
                    listing, reloaded, barrier, overlapped, ssimLog, asked >>

\* ------------------------------------------------------------------------
\* The report, lines 215-225

\* '×'.join(image_dimensions(file))
Joined(dims) == dims[1] \o <<215>> \o dims[2]

SizeOf(file) == Joined(image_dimensions(file))

ScoreLine(ssim) == [kind |-> "ssim", text |-> <<ssim>>]
ConfirmedLine == [kind |-> "confirmed", text |-> <<>>]
PathLine(file) == [kind |-> "path", text |-> <<SizeOf(file), file>>]

AboveThresholdStrictly(ssim) == ssim > SSIM_THRESHOLD

\* `if ssim >= SSIM_THRESHOLD` of line 216
AboveThreshold(ssim) == ssim >= SSIM_THRESHOLD

\* One iteration of the loop of line 215; the answer to
\* ask_manual_comparison is the user's.
Report(i) ==
    /\ pc[i] = "report"
    /\ IF next[i] > Len(outputs[i])
       THEN /\ pc' = [pc EXCEPT ![i] = "done"]
            /\ UNCHANGED << listing, next, asked >>
       ELSE \E o \in { outputs[i][next[i]] } :
            \E both \in { <<PathLine(o[1]), PathLine(o[2])>> } :
                /\ next' = [next EXCEPT ![i] = @ + 1]
                /\ pc' = pc
                /\ IF ~AboveThreshold(o[3])
                   THEN UNCHANGED << listing, asked >>
                   ELSE IF manual[i]
                   THEN \E same \in BOOLEAN :
                          /\ asked' = [asked EXCEPT ![i] = Append(@, <<o[1], o[2], same>>)]
                          /\ listing' = [listing EXCEPT ![i] =
                                IF same
                                THEN @ \o <<ScoreLine(o[3]), ConfirmedLine>> \o both
                                ELSE Append(@, ScoreLine(o[3]))]
                   ELSE /\ listing' = [listing EXCEPT ![i] = @ \o <<ScoreLine(o[3])>> \o both]
                        /\ asked' = asked
    /\ UNCHANGED << disk, image, fpOf, ssimOf, args, manual, files, cache,
                    todo, cached_outputs, inflight, results, outputs,
                    duplicates, pairs, reloaded, saved, stale, raced, barrier,
                    overlapped, ssimLog >>

\* ------------------------------------------------------------------------
\* Specifications

Next ==
    \/ \E i \in Invocations : Start(i)
    \/ \E i \in Invocations : Dispatch1(i)
    \/ \E i \in Invocations : \E k \in inflight[i] : checksum_of_thumbnail(i, k)
    \/ \E i \in Invocations : TaskFails(i)
    \/ \E i \in Invocations : SaveChecksumsReload(i)
    \/ \E i \in Invocations : SaveChecksumsWrite(i)
    \/ \E i \in Invocations : Bucket(i)
    \/ \E i \in Invocations : \E k \in inflight[i] : compute_SSIM(i, k)
    \/ \E i \in Invocations : SaveSimilaritiesReload(i)
    \/ \E i \in Invocations : SaveSimilaritiesWrite(i)
    \/ \E i \in Invocations : Report(i)

Spec == Init /\ [][Next]_vars

\* compute_SSIM called directly on pairs of two files whose sizes and
\* orientations are drawn freely.
ProbeA == <<97, 46, 106, 112, 103>>
ProbeB == <<100, 47, 99, 46, 106, 112, 101, 103>>

ImageAttrs == [w : Sizes, h : Sizes, orientation : Orientations]

InitSSIM ==
    /\ disk = NoFile
    /\ \E a, b \in ImageAttrs :
          image = [p \in AllPaths |-> IF p = ProbeA THEN a
                                      ELSE IF p = ProbeB THEN b
                                      ELSE FsImages[p]]
    /\ args = [i \in Invocations |-> {}]
    /\ manual = [i \in Invocations |-> FALSE]
    /\ InitRun

CallSSIM(file1, file2) ==
    /\ <<file1, file2>> \notin DOMAIN ssimLog
    /\ \E in \in { SSIMInputs(file1, file2) } :
       \E key \in { MetricInput(in) } :
       \E ssim \in (IF key \in DOMAIN ssimOf THEN {ssimOf[key]} ELSE Scores) :
          /\ ssimOf' = (key :> ssim) @@ ssimOf
          /\ ssimLog' = (<<file1, file2>> :>
                           [file1 |-> in.file1, file2 |-> in.file2,
                            resize |-> in.resize, ssim |-> ssim]) @@ ssimLog
    /\ UNCHANGED << disk, image, fpOf, args, manual, pc, files, cache, todo,
                    cached_outputs, inflight, results, outputs, duplicates,
                    pairs, listing, next, reloaded, saved, stale, raced,
                    barrier, overlapped, asked >>

NextSSIM ==
    \E file1, file2 \in {ProbeA, ProbeB} : file1 # file2 /\ CallSSIM(file1, file2)

SpecSSIM == InitSSIM /\ [][NextSSIM]_vars

\* Lines 192-204 applied on their own to result lists drawn freely: any
\* checksums for the files, any number of them found in the cache.
RECURSIVE SeqOfSet(_)
SeqOfSet(S) ==
    IF S = {} THEN <<>>
    ELSE LET x == CHOOSE y \in S : TRUE IN <<x>> \o SeqOfSet(S \ {x})

PathList == SeqOfSet(AllPaths)

InitBucket ==
    /\ disk = NoFile
    /\ image = FsImages
    /\ args = [i \in Invocations |-> {}]
    /\ manual = [i \in Invocations |-> FALSE]
    /\ fpOf = <<>>
    /\ ssimOf = <<>>
    /\ \E n \in 0..MaxResults : \E hit \in 0..n :
       \E sums \in [1..n -> Fingerprints \cup {2}] :
          /\ n <= Len(PathList)
          /\ files = [i \in Invocations |-> IF i = 1 THEN SubSeq(PathList, 1, n) ELSE <<>>]
          /\ cached_outputs = [i \in Invocations |->
                IF i = 1 THEN [k \in 1..hit |-> <<PathList[k], sums[k]>>] ELSE <<>>]
          /\ outputs = [i \in Invocations |->
                IF i = 1 THEN [k \in 1..(n - hit) |-> <<PathList[hit + k], sums[hit + k]>>]
                ELSE <<>>]
          /\ todo = [i \in Invocations |->
                IF i = 1 THEN SubSeq(PathList, hit + 1, n) ELSE <<>>]
    /\ pc = [i \in Invocations |-> IF i = 1 THEN "saved1" ELSE "usage"]
    /\ cache = [i \in Invocations |-> [checksums |-> <<>>, similarities |-> <<>>]]
    /\ inflight = [i \in Invocations |-> {}]
    /\ results = [i \in Invocations |-> <<>>]
    /\ duplicates = [i \in Invocations |-> <<>>]
    /\ pairs = [i \in Invocations |-> <<>>]
    /\ listing = [i \in Invocations |-> <<>>]
    /\ next = [i \in Invocations |-> 1]
    /\ reloaded = [i \in Invocations |-> NoFile]
    /\ saved = [i \in Invocations |-> [checksums |-> <<>>, similarities |-> <<>>, count |-> 0]]
    /\ stale = [i \in Invocations |-> FALSE]
    /\ raced = FALSE
    /\ barrier = [i \in Invocations |->
                    [dispatched |-> 0, finished |-> 0, saved |-> FALSE,
                     paired |-> FALSE, dispatched2 |-> 0, failed |-> 0]]
    /\ overlapped = FALSE
    /\ ssimLog = <<>>
    /\ asked = [i \in Invocations |-> <<>>]

NextBucket == \E i \in Invocations : Bucket(i)

SpecBucket == InitBucket /\ [][NextBucket]_vars

\* One invocation, then, once it has run to its end, another one with the
\* same arguments: no two invocations run together.
RerunArgs ==
    { a \in SUBSET (ArgUniverse \cup OtherArgs) :
        a # {} /\ Cardinality(ScanTable[a]) <= MaxFiles }

InitSuccessive(flag) ==
    /\ disk \in {NoFile, BadFile}
    /\ image = FsImages
    /\ \E a \in RerunArgs : args = [i \in Invocations |-> a]
    /\ manual = [i \in Invocations |-> flag]
    /\ InitRun

InitRerun == InitSuccessive(FALSE)

\* main() has returned.
Ended(i) == pc[i] = "done"

NextRerun ==
    \E i \in Invocations :
        /\ \A j \in Invocations : j < i => Ended(j)
        /\ \/ Start(i)
           \/ Dispatch1(i)
           \/ \E k \in inflight[i] : checksum_of_thumbnail(i, k)
           \/ TaskFails(i)
           \/ SaveChecksumsReload(i)
           \/ SaveChecksumsWrite(i)
           \/ Bucket(i)
           \/ \E k \in inflight[i] : compute_SSIM(i, k)
           \/ SaveSimilaritiesReload(i)
           \/ SaveSimilaritiesWrite(i)
           \/ Report(i)

SpecRerun == InitRerun /\ [][NextRerun]_vars

\* The same two invocations, both with --manual-validation.
InitManual == InitSuccessive(TRUE)

SpecManual == InitManual /\ [][NextRerun]_vars

\* ------------------------------------------------------------------------
\* Properties

Members(seq) == { seq[k] : k \in DOMAIN seq }

\* The paths of `outs` that carry the checksum s.
PathsWith(outs, s) == { outs[k][1] : k \in { j \in DOMAIN outs : outs[j][2] = s } }

Occurrences(outs, s) == Cardinality({ j \in DOMAIN outs : outs[j][2] = s })

\* C1: once the clusters are built, every cluster has at least two members,
\* every checksum that occurs more than once has exactly one cluster, made
\* of all and only the paths carrying it, every cluster is the cluster of
\* such a checksum, a path whose checksum occurs once is in no cluster, and
\* no path is in two clusters.
C1_Bucketing ==
    \A i \in Invocations : pc[i] = "stage2" =>
        LET outs == outputs[i]
            dups == duplicates[i]
            sums == { outs[k][2] : k \in DOMAIN outs }
        IN  /\ \A c \in DOMAIN dups :
                 /\ Cardinality(Members(dups[c])) >= 2
                 /\ Cardinality(Members(dups[c])) = Len(dups[c])
                 /\ \E s \in sums : Occurrences(outs, s) > 1
                                    /\ Members(dups[c]) = PathsWith(outs, s)
            /\ \A s \in sums : Occurrences(outs, s) > 1 =>
                 Cardinality({ c \in DOMAIN dups : Members(dups[c]) = PathsWith(outs, s) }) = 1
            /\ \A k \in DOMAIN outs :
                 /\ Occurrences(outs, outs[k][2]) = 1 =>
                      \A c \in DOMAIN dups : outs[k][1] \notin Members(dups[c])
                 /\ Cardinality({ c \in DOMAIN dups : outs[k][1] \in Members(dups[c]) }) <= 1

\* A cluster of three, a second cluster and a path left alone have been seen.
C1_Witness ==
    /\ pc[1] = "stage2"
    /\ Len(outputs[1]) = 4
    /\ \/ /\ Len(duplicates[1]) = 1
          /\ Len(duplicates[1][1]) = 3
       \/ /\ Len(duplicates[1]) = 2
          /\ Len(cached_outputs[1]) = 1

\* C2: a cluster of k members yields k(k-1)/2 pairs, one for each unordered
\* pair of two of its members; no pair has twice the same member and no
\* pair joins two clusters.
C2_Pairs ==
    \A i \in Invocations : pc[i] = "stage2" =>
        LET dups == duplicates[i]
            ps == pairs[i]
            PairsIn(c) == { k \in DOMAIN ps : {ps[k][1], ps[k][2]} \subseteq Members(dups[c]) }
        IN  /\ \A c \in DOMAIN dups :
                 /\ 2 * Cardinality(PairsIn(c)) = Len(dups[c]) * (Len(dups[c]) - 1)
                 /\ \A a, b \in DOMAIN dups[c] : a < b =>
                      Cardinality({ k \in DOMAIN ps :
                                      {ps[k][1], ps[k][2]} = {dups[c][a], dups[c][b]} }) = 1
            /\ \A k \in DOMAIN ps :
                 /\ ps[k][1] # ps[k][2]
                 /\ \E c \in DOMAIN dups : k \in PairsIn(c)
            /\ Cardinality(UNION { PairsIn(c) : c \in DOMAIN dups }) = Len(ps)

\* A cluster of four has yielded its six pairs.
C2_Witness ==
    /\ pc[1] = "stage2"
    /\ Len(duplicates[1]) = 1
    /\ Len(duplicates[1][1]) = 4
    /\ Len(pairs[1]) = 6

\* Width of the image as displayed, as a number.
PostRotationWidth(file) ==
    LET im == image[file]
    IN  IF im.orientation \in {6, 8} THEN im.h ELSE im.w

\* C3: compute_SSIM returns first the image whose displayed width is
\* numerically the smaller one, and exchanges the two paths exactly when
\* the first input is numerically wider.
C3_NumericCanonical ==
    \A pq \in DOMAIN ssimLog :
        LET r == ssimLog[pq]
            swapped == PostRotationWidth(pq[1]) > PostRotationWidth(pq[2])
        IN  /\ PostRotationWidth(r.file1) <= PostRotationWidth(r.file2)
            /\ r.file1 = (IF swapped THEN pq[2] ELSE pq[1])
            /\ r.file2 = (IF swapped THEN pq[1] ELSE pq[2])

\* C4: for two images of unequal displayed width, compute_SSIM(A, B) and
\* compute_SSIM(B, A) return the same order of the paths, resize the same
\* image to the same geometry and return the same score.
C4_OrderIndependent ==
    \A a, b \in {ProbeA, ProbeB} :
        ( /\ <<a, b>> \in DOMAIN ssimLog
          /\ <<b, a>> \in DOMAIN ssimLog
          /\ PostRotationWidth(a) # PostRotationWidth(b) )
        => ssimLog[<<a, b>>] = ssimLog[<<b, a>>]

\* Both orders of a pair of unequal width, one of them rotated and the
\* second one resized, have been compared.
C4_Witness ==
    /\ <<ProbeA, ProbeB>> \in DOMAIN ssimLog
    /\ <<ProbeB, ProbeA>> \in DOMAIN ssimLog
    /\ PostRotationWidth(ProbeA) # PostRotationWidth(ProbeB)
    /\ image_is_rotated(ProbeA)
    /\ ssimLog[<<ProbeA, ProbeB>>].file1 = ProbeB
    /\ ssimLog[<<ProbeA, ProbeB>>].resize # <<>>

\* paths_hash gives the two orders of every pair of distinct paths one key.
KeysSymmetric ==
    \A a, b \in AllPaths : a # b => PairHashes[<<a, b>>] = PairHashes[<<b, a>>]

\* The paths the invocations have found.
Found == UNION { Members(files[i]) : i \in Invocations }

\* C5: the key of a pair of distinct paths does not depend on their order,
\* so every cache, in memory or reloaded from the file, answers
\* get_similarity the same for (A, B) and (B, A), whatever has been saved.
C5_KeySymmetry ==
    /\ KeysSymmetric
    /\ \A a, b \in Found : a # b =>
          /\ get_similarity(load_from_disk(disk), a, b) = get_similarity(load_from_disk(disk), b, a)
          /\ \A i \in Invocations :
                get_similarity(cache[i], a, b) = get_similarity(cache[i], b, a)

\* A score saved for a pair of paths with different hashes is found in the
\* file, under the pair taken in the order opposite to the one it was saved in.
C5_Witness ==
    \E i \in Invocations :
        /\ pc[i] = "done"
        /\ Len(outputs[i]) = 1
        /\ PathHashes[outputs[i][1][1]] # PathHashes[outputs[i][1][2]]
        /\ get_similarity(load_from_disk(disk), outputs[i][1][2], outputs[i][1][1])
             = <<outputs[i][1][3]>>

\* C6: when save_checksums has rewritten the file, a Cache constructed from
\* the file returns, for every path of the batch, the checksum computed for
\* that path.
C6_RoundTrip ==
    [][ \A i \in Invocations :
          (pc[i] = "save1" /\ pc'[i] = "saved1") =>
             \A k \in DOMAIN outputs[i] :
                get_checksum(load_from_disk(disk'), outputs[i][k][1]) = <<outputs[i][k][2]>> ]_vars

\* The mapping `after` is `before` overridden by the entries of the batch,
\* whose keys are batchKeys and whose values under key h are Values(h).
Overridden(before, after, batchKeys, Values(_)) ==
    /\ DOMAIN after = DOMAIN before \cup batchKeys
    /\ \A h \in DOMAIN after :
          IF h \in batchKeys THEN after[h] \in Values(h) ELSE after[h] = before[h]

KeyParts(key) ==
    LET sp == CHOOSE k \in DOMAIN key : key[k] = 32
    IN  <<IntOfStr(SubSeq(key, 1, sp - 1)), IntOfStr(SubSeq(key, sp + 1, Len(key)))>>

\* C8: every similarity key in the file has its first hash strictly below
\* its second.
C8_StrictKeys ==
    \A key \in DOMAIN disk.similarities :
        U32Less(KeyParts(key)[1], KeyParts(key)[2])

\* Both saves of the invocation have rewritten the file.
Finished(i) == saved[i].count = 2

\* The file holds the batches the invocation has saved.
BatchesPresent(i) ==
    /\ \A h \in DOMAIN saved[i].checksums :
          h \in DOMAIN disk.checksums /\ disk.checksums[h] = saved[i].checksums[h]
    /\ \A h \in DOMAIN saved[i].similarities :
          h \in DOMAIN disk.similarities /\ disk.similarities[h] = saved[i].similarities[h]

NoCommonKey(i, j) ==
    /\ DOMAIN saved[i].checksums \cap DOMAIN saved[j].checksums = {}
    /\ DOMAIN saved[i].similarities \cap DOMAIN saved[j].similarities = {}

\* C9 as stated: when the batches of two invocations have no key in common,
\* both are in the file once the saves of both have completed, however
\* their reloads and rewrites interleave.
C9_AnyInterleaving ==
    \A i, j \in Invocations :
        (i # j /\ Finished(i) /\ Finished(j) /\ NoCommonKey(i, j))
        => (BatchesPresent(i) /\ BatchesPresent(j))

\* C9 amended: the batches of an invocation that share no key with the
\* batches of the others are in the file once its saves have completed,
\* provided no save rewrote the file from a reload that a rewrite of
\* another invocation had made out of date.
C9_NoStaleRewrite ==
    \A i \in Invocations :
        ( /\ Finished(i)
          /\ ~raced
          /\ \A j \in Invocations \ {i} : NoCommonKey(i, j) )
        => BatchesPresent(i)

\* Two invocations that ran at the same time have both saved checksums
\* under different keys, no rewrite was made from a stale reload, and both
\* batches are in the file.
C9_Witness ==
    \E i, j \in Invocations :
        /\ i # j
        /\ overlapped
        /\ ~raced
        /\ Finished(i) /\ Finished(j)
        /\ NoCommonKey(i, j)
        /\ saved[i].checksums # <<>> /\ saved[j].checksums # <<>>
        /\ BatchesPresent(i) /\ BatchesPresent(j)

\* C10: while the similarity tasks of a run are with the pool, every
\* checksum task of the run has finished, the checksums have been saved,
\* the clusters and pairs have been built, and every file has its checksum
\* in the list the pairs were built from.
C10_StageBarrier ==
    \A i \in Invocations : pc[i] = "stage2" =>
        /\ barrier[i].finished = barrier[i].dispatched
        /\ barrier[i].saved
        /\ barrier[i].paired
        /\ Len(outputs[i]) = Len(files[i])
        /\ \A k \in DOMAIN todo[i] :
              {todo[i][k][1], todo[i][k][2]} \subseteq { outputs[i][j][1] : j \in DOMAIN outputs[i] }

\* Similarity tasks are with the pool after two checksum tasks have run.
C10_Witness ==
    \E i \in Invocations :
        /\ pc[i] = "stage2"
        /\ inflight[i] # {}
        /\ barrier[i].dispatched = 2
        /\ barrier[i].finished = 2

\* A step in which the invocation reads the cache file: Cache() of line 183
\* or the reload of a save.
StoreRead(i) ==
    \/ pc[i] = "start" /\ pc'[i] \in {"loaded", "failed"}
    \/ pc[i] \in {"stage1", "stage2"} /\ pc'[i] \in {"save1", "save2"}

\* A step in which the invocation rewrites the cache file.
StoreWrite(i) == saved'[i].count = saved[i].count + 1

\* C11: an invocation reads or rewrites the cache file only while none of
\* its pool tasks is in flight; while one is in flight its Cache, its todo
\* list and its cached results do not change; each rewrite comes after the
\* results of every task of the stage are in, and is the only one of its
\* stage.
C11_NoIntraRunRace ==
    [][\A i \in Invocations :
          /\ (StoreRead(i) \/ StoreWrite(i)) => inflight[i] = {}
          /\ inflight[i] # {} =>
                /\ cache'[i] = cache[i]
                /\ todo'[i] = todo[i]
                /\ cached_outputs'[i] = cached_outputs[i]
          /\ StoreWrite(i) =>
                /\ DOMAIN results[i] = 1..Len(todo[i])
                /\ saved[i].count = (IF barrier[i].paired THEN 1 ELSE 0)
                /\ disk' = Document(cache'[i])]_vars

\* An invocation has run tasks in both stages and made its two rewrites.
C11_Witness ==
    \E i \in Invocations :
        /\ pc[i] = "report"
        /\ saved[i].count = 2
        /\ barrier[i].dispatched > 0
        /\ barrier[i].dispatched2 > 0

\* C12: once a task of an invocation has failed, the invocation has ended
\* there: the failed task is not run again, nothing is listed and nobody is
\* asked, and the invocation has written nothing of the stage that failed
\* (after a failure in stage one no checksum, no cluster, no pair and no
\* similarity task; after a failure in stage two no similarity).
C12_AbortWithoutPartialResults ==
    \A i \in Invocations : barrier[i].failed > 0 =>
        /\ pc[i] = "failed"
        /\ barrier[i].failed = 1
        /\ inflight[i] # {}
        /\ listing[i] = <<>> /\ asked[i] = <<>> /\ next[i] = 1
        /\ IF barrier[i].paired
           THEN saved[i].count = 1 /\ saved[i].similarities = <<>>
           ELSE /\ saved[i].count = 0 /\ saved[i].checksums = <<>>
                /\ duplicates[i] = <<>> /\ pairs[i] = <<>>
                /\ barrier[i].dispatched2 = 0

\* A task of stage one failed after another task of the batch had returned
\* its result.
C12_Witness ==
    \E i \in Invocations :
        /\ barrier[i].failed = 1
        /\ ~barrier[i].paired
        /\ results[i] # <<>>

\* C13: every file an invocation has found is one of its path arguments or
\* an entry of a directory that is one of its path arguments.
C13_SingleLevel ==
    \A i \in Invocations : \A p \in Members(files[i]) :
        \/ p \in args[i]
        \/ \E a \in args[i] : ~isfile(a) /\ p \in glob(a)

\* C14: with --manual-validation, an invocation that has ended with every
\* question answered "no" has listed nothing, and whoever is asked has both
\* stages behind them.
C14_NoExcluded ==
    \A i \in Invocations :
        /\ asked[i] # <<>> => manual[i] /\ pc[i] \in {"report", "done"} /\ saved[i].count = 2
        /\ (/\ manual[i]
            /\ pc[i] = "done"
            /\ \A k \in DOMAIN asked[i] : ~asked[i][k][3]) => listing[i] = <<>>

\* The pairs of `ps` whose score in the cache file is at the threshold or
\* above it, each as the set of its two paths.
StoredAbove(ps) ==
    { {ps[k][1], ps[k][2]} : k \in { n \in DOMAIN ps :
          \E v \in { get_similarity(load_from_disk(disk), ps[n][1], ps[n][2]) } :
              v # None /\ v[1] >= SSIM_THRESHOLD } }

\* The pairs an invocation has a score for, and those of them whose score
\* is at the threshold or above it, each as the set of its two paths.
Scored(i) == { {outputs[i][k][1], outputs[i][k][2]} : k \in DOMAIN outputs[i] }

ScoredAbove(i) ==
    { {outputs[i][k][1], outputs[i][k][2]} :
        k \in { n \in DOMAIN outputs[i] : outputs[i][n][3] >= SSIM_THRESHOLD } }

\* The pairs the user was asked about, each as the set of its two paths.
AskedPairs(i) == { {asked[i][k][1], asked[i][k][2]} : k \in DOMAIN asked[i] }

\* C15: no step of the report loop, and no answer, changes the cache file
\* or a Cache; an invocation with --manual-validation that has ended has a
\* score for every pair of its clusters and has asked about exactly those
\* whose score is at the threshold or above it, whatever an earlier
\* invocation was answered; when it found all its scores in the cache
\* file, these are the pairs whose score in the file is that high.
C15_DecisionsNotStored ==
    /\ [][\A i \in Invocations :
             (pc[i] = "report" \/ asked'[i] # asked[i]) =>
                 disk' = disk /\ cache' = cache /\ saved' = saved]_vars
    /\ [](\A i \in Invocations : (manual[i] /\ pc[i] = "done") =>
             /\ Scored(i) = { {pairs[i][k][1], pairs[i][k][2]} : k \in DOMAIN pairs[i] }
             /\ AskedPairs(i) = ScoredAbove(i)
             /\ barrier[i].dispatched2 = 0 => AskedPairs(i) = StoredAbove(pairs[i]))

\* The second invocation found the score of a pair in the cache and asked
\* about it again after the first one had been answered "no" for it.
C15_Witness ==
    /\ pc[2] = "done"
    /\ barrier[2].dispatched2 = 0
    /\ \E k \in DOMAIN asked[1] :
          /\ ~asked[1][k][3]
          /\ {asked[1][k][1], asked[1][k][2]} \in AskedPairs(2)

\* The result o is in the listing: its score line, then the line of each
\* of its two files.
Listed(i, o) ==
    \E n \in 1..(Len(listing[i]) - 2) :
        /\ listing[i][n] = [kind |-> "ssim", text |-> <<o[3]>>]
        /\ listing[i][n + 1].kind = "path" /\ listing[i][n + 1].text[2] = o[1]
        /\ listing[i][n + 2].kind = "path" /\ listing[i][n + 2].text[2] = o[2]

\* C16: an invocation without --manual-validation that has ended has a
\* score for every pair of its clusters, found in the cache or computed,
\* and has listed exactly the pairs whose score is SSIM_THRESHOLD or more:
\* three lines for each of them and no other line.
C16_InclusiveThreshold ==
    \A i \in Invocations : (pc[i] = "done" /\ ~manual[i]) =>
        /\ Len(outputs[i]) = Len(pairs[i])
        /\ \A k \in DOMAIN outputs[i] :
              Listed(i, outputs[i][k]) <=> outputs[i][k][3] >= SSIM_THRESHOLD
        /\ Len(listing[i]) =
              3 * Cardinality({ k \in DOMAIN outputs[i] : outputs[i][k][3] >= SSIM_THRESHOLD })

\* Both invocations have listed a pair whose score is exactly the
\* threshold, the first after computing the score, the second after
\* finding it in the cache.
C16_Witness ==
    /\ pc[1] = "done" /\ pc[2] = "done"
    /\ ~manual[1] /\ ~manual[2]
    /\ barrier[1].dispatched2 = 1 /\ barrier[2].dispatched2 = 0
    /\ \A i \in Invocations :
          /\ Len(outputs[i]) = 1
          /\ outputs[i][1][3] = SSIM_THRESHOLD
          /\ Listed(i, outputs[i][1])

\* Cache.checksums and Cache.similarities after a load that found no file.
EmptyCache == [checksums |-> <<>>, similarities |-> <<>>]

\* C17: while there is no cache file, Cache() succeeds and gives two empty
\* dicts, every lookup in them is a miss (every file found goes to the
\* pool), and a rewrite creates a file that holds the batch being saved
\* and nothing else; while the file is malformed it stays as it is, every
\* invocation that was given arguments fails in Cache(), and no task has
\* been given to a pool.
C17_MissingOrMalformed ==
    /\ [][\A i \in Invocations :
             /\ (disk = NoFile /\ pc[i] = "start" /\ pc'[i] \notin {"start", "usage"}) =>
                   /\ pc'[i] = "loaded"
                   /\ cache'[i] = EmptyCache
                   /\ \A p \in AllPaths : get_checksum(cache'[i], p) = None
                   /\ \A p, q \in AllPaths : get_similarity(cache'[i], p, q) = None
             /\ (cache[i] = EmptyCache /\ pc[i] = "loaded" /\ pc'[i] = "stage1") =>
                   todo'[i] = files[i] /\ cached_outputs'[i] = <<>>
             /\ (disk = NoFile /\ StoreWrite(i)) =>
                   /\ disk'.kind = "ok"
                   /\ disk'.checksums = NewChecksums(outputs[i])
                   /\ disk'.similarities = <<>>
             /\ disk = BadFile => disk' = BadFile]_vars
    /\ [](disk = BadFile =>
             \A i \in Invocations :
                 /\ pc[i] \in {"start", "usage", "failed"}
                 /\ pc[i] = "usage" => args[i] = {}
                 /\ pc[i] = "failed" => args[i] # {}
                 /\ todo[i] = <<>> /\ inflight[i] = {} /\ results[i] = <<>>
                 /\ barrier[i].dispatched = 0 /\ saved[i].count = 0)

\* An invocation that found no cache file and no file at its first save
\* has created the file with the checksums it computed.
C17_Witness ==
    \E i \in Invocations :
        /\ pc[i] = "saved1"
        /\ reloaded[i] = NoFile
        /\ barrier[i].dispatched = Len(files[i])
        /\ saved[i].checksums # <<>>
        /\ disk = [kind |-> "ok", checksums |-> saved[i].checksums, similarities |-> <<>>]

\* The name ends, in any case of the letters, in ".jpg" or ".jpeg".
JpegName(p) ==
    \E n \in {4, 5} :
        /\ Len(p) > n
        /\ lower(SubSeq(p, Len(p) - n + 1, Len(p))) \in
              { <<46, 106, 112, 103>>, <<46, 106, 112, 101, 103>> }

\* The paths of the scans that name a regular file with such a name, and
\* the regular files with such a name.
JpegPaths == { p \in AllPaths : JpegName(p) /\ FileOf[p] \in FsFiles }

JpegFiles == { f \in FsFiles : JpegName(f) }

\* Every path an invocation holds in one of its lists.
Handled(i) ==
    Members(files[i])
    \cup { outputs[i][k][1] : k \in DOMAIN outputs[i] }
    \cup { outputs[i][k][2] : k \in { n \in DOMAIN outputs[i] : Len(outputs[i][n]) = 3 } }
    \cup { cached_outputs[i][k][1] : k \in DOMAIN cached_outputs[i] }
    \cup UNION { Members(duplicates[i][k]) : k \in DOMAIN duplicates[i] }
    \cup UNION { {pairs[i][k][1], pairs[i][k][2]} : k \in DOMAIN pairs[i] }
    \cup UNION { {asked[i][k][1], asked[i][k][2]} : k \in DOMAIN asked[i] }
    \cup { listing[i][k].text[2] : k \in { n \in DOMAIN listing[i] : listing[i][n].kind = "path" } }

\* C18: every path in a list of an invocation, every image given to the
\* thumbnail tool and every image given to the metric tool is a regular
\* file whose name ends in .jpg or .jpeg, in any case; an invocation that
\* found no such file fails only on a malformed cache file, gives the
\* pools nothing, and ends with no cluster, no pair and nothing listed.
C18_ExtensionFilter ==
    /\ \A i \in Invocations : Handled(i) \subseteq JpegPaths
    /\ DOMAIN fpOf \subseteq JpegFiles
    /\ \A in \in DOMAIN ssimOf : {in[1], in[2]} \subseteq JpegFiles
    /\ \A i \in Invocations : (files[i] = <<>> /\ pc[i] \notin {"start", "usage"}) =>
          /\ pc[i] = "failed" => disk = BadFile
          /\ barrier[i].dispatched = 0 /\ barrier[i].dispatched2 = 0
          /\ barrier[i].failed = 0
          /\ duplicates[i] = <<>> /\ pairs[i] = <<>> /\ listing[i] = <<>>

\* An invocation whose only argument is a text file has run to its end.
C18_Witness ==
    /\ args[1] = OtherArgs
    /\ pc[1] = "done"
    /\ files[1] = <<>>
    /\ listing[1] = <<>>
    /\ disk.kind = "ok"

\* C19: the checksum tasks an invocation gives to the pool are for files
\* that differ from one another, and the two paths of a pair never name the
\* same file.
C19_OneReference ==
    \A i \in Invocations :
        /\ pc[i] = "stage1" =>
              \A k, l \in DOMAIN todo[i] : k # l => FileOf[todo[i][k]] # FileOf[todo[i][l]]
        /\ \A k \in DOMAIN pairs[i] : FileOf[pairs[i][k][1]] # FileOf[pairs[i][k][2]]

\* The clusters of an invocation, each as the set of its paths, and its
\* pairs, each as the set of its two paths.
Clusters(i) == { Members(duplicates[i][k]) : k \in DOMAIN duplicates[i] }

PairSets(i) == { {pairs[i][k][1], pairs[i][k][2]} : k \in DOMAIN pairs[i] }

\* C20: after an invocation has run to its end, the next one, given the
\* same arguments, gives no checksum task and no similarity task to a
\* pool, builds the same clusters and the same pairs and, without
\* --manual-validation, prints the same lines.
C20_Amortized ==
    pc[1] = "done" =>
        /\ barrier[2].dispatched = 0
        /\ barrier[2].dispatched2 = 0
        /\ pc[2] \in {"stage2", "save2", "report", "done"} =>
              Clusters(2) = Clusters(1) /\ PairSets(2) = PairSets(1)
        /\ (pc[2] = "done" /\ ~manual[2]) => Members(listing[2]) = Members(listing[1])

====
